---- MODULE Spec2Model ----
(***************************************************************************)
(* Model of blk.game.server.ServerGame (src/blk/game/server/servergame.js):*)
(* the per-tick update, the connect / disconnect handlers, setBlock and    *)
(* movePlayer, over a small pool of user objects.                          *)
(*                                                                         *)
(* Object identity.  Every connect creates one ServerPlayer and one        *)
(* ChunkView for the connecting gf.net.User; a player object and a view    *)
(* object are named by the user they were created for.  Entities are named *)
(* by their id.  A gf.net.User object stands for one connection: it is     *)
(* connected at most once.                                                 *)
(*                                                                         *)
(* session.poll() (line 198) hands inbound events to the handlers before   *)
(* the rest of update runs; the handlers are the other actions of Next, so *)
(* a tick that polls k events is k handler steps followed by update.       *)
(*                                                                         *)
(* The classes the game drives but this file does not define (ServerPlayer,*)
(* Entity, ServerMovement, ChunkView, GameState, ServerMap) are modelled   *)
(* from their description in the specification.                            *)
(*                                                                         *)
(* Spec      connects, disconnects, ticks and movement commands            *)
(* SpecLife  connects, disconnects and ticks                               *)
(* SpecBlock connects, disconnects and block edits                         *)
(***************************************************************************)
EXTENDS Integers, Sequences, FiniteSets, TLC

\* ---------------------------------------------------------------- bounds
MaxUsers == 2
MaxSequence == 1
MaxCommands == 2
MaxQueue == 2
MaxX == 1
MaxDeletes == 2

\* ------------------------------------------------------- program constants
USER_CONTROLLED == 1
NoOwnerWireId == 255
NoSequence == -1
SpawnPosition == <<0, 80, 0>>

\* ----------------------------------------------------------------- values
Users == 1..MaxUsers
EntityIds == 0..(MaxUsers - 1)
NoPlayer == 0
NoEntity == -1
NoView == 0
NoTimer == 0
TimerId == 1

\* frame.time * 1000 of a tick, the milliseconds since the clock started, as
\* hi * 2^16 + lo with a fraction of frac / 1000
FrameTimes ==
  {[hi |-> 0, lo |-> 1, frac |-> 500], [hi |-> 32768, lo |-> 0, frac |-> 0]}

\* world cells addressed by setBlock and the block data values offered to it
Cells == {<<1, 2, 3>>, <<0, 0, 0>>}
BlockSet == {1}
BlockDatas == {0, 256, 257, 768}

VARIABLES
  sessionUsers,    \* session.users: the users the session holds a socket for
  userData,        \* user.data of every user object: a player or NoPlayer
  playerObjs,      \* the ServerPlayer objects created so far
  players,         \* state.players: the roster
  entities,        \* map.entities: the entity table
  chunkViews,      \* the chunk views registered with the map
  blocks,          \* the block data stored in the world
  nextEntityId_,   \* this.nextEntityId_
  sent,            \* the packets handed to session.send by the last operation
  lastOp,          \* the last operation: name, user, result
  assigned,        \* history: the entity ids given out, in order
  deletesSent,     \* history: EntityDelete broadcasts per entity id
  browserClient_,  \* this.browserClient_ is set (a remote, listed server)
  browserUpdateId_,  \* this.browserUpdateId_: NoTimer or the last timer id
  registerPending, \* registerServer's deferred has not fired yet
  updatePending,   \* updateServer requests whose deferred has not fired yet
  timerPending,    \* the updateBrowser_ timeout is waiting in the event loop
  disposed         \* disposeInternal has run

browserVars == <<browserClient_, browserUpdateId_, registerPending,
                 updatePending, timerPending, disposed>>

vars == <<sessionUsers, userData, playerObjs, players, entities, chunkViews,
          blocks, nextEntityId_, sent, lastOp, assigned, deletesSent,
          browserClient_, browserUpdateId_, registerPending, updatePending,
          timerPending, disposed>>

\* ---------------------------------------------------------------- helpers
Range(s) == {s[i] : i \in 1..Len(s)}

Op(name, user, args, ret) ==
  [op |-> name, user |-> user, args |-> args, ret |-> ret]

\* ------------------------------------------------- collaborators' objects
\* blk.physics.ServerMovement, as the spec's data model describes it
NoMovement ==
  [attached |-> FALSE, entity |-> NoEntity, lastSequence |-> NoSequence,
   lastSequenceSent |-> NoSequence, pendingCommands |-> <<>>]

NewServerMovement(entityId) ==
  [attached |-> TRUE, entity |-> entityId, lastSequence |-> NoSequence,
   lastSequenceSent |-> NoSequence, pendingCommands |-> <<>>]

\* blk.game.server.ServerPlayer
NewServerPlayer(user) ==
  [user |-> user, entity |-> NoEntity, view |-> NoView,
   movement |-> NoMovement]

\* blk.env.Entity
NewEntity(id) ==
  [id |-> id, flags |-> 0, player |-> NoPlayer, position |-> <<0, 0, 0>>,
   time |-> 0, hasSentLatestState |-> FALSE]

\* session.send(data, user) and session.send(data)
SendTo(packet, user) == packet @@ [bcast |-> FALSE, to |-> {user}]

Broadcast(packet, session) == packet @@ [bcast |-> TRUE, to |-> session]

\* ----------------------------------------------------------------- Init
InitGame ==
  /\ sessionUsers = {}
  /\ userData = [u \in Users |-> NoPlayer]
  /\ playerObjs = [p \in {} |-> NewServerPlayer(p)]
  /\ players = <<>>
  /\ entities = <<>>
  /\ chunkViews = {}
  /\ blocks = [c \in Cells |-> 0]
  /\ nextEntityId_ = 0
  /\ sent = <<>>
  /\ lastOp = Op("init", 0, <<>>, "undefined")
  /\ assigned = <<>>
  /\ deletesSent = [i \in EntityIds |-> 0]
  /\ browserUpdateId_ = NoTimer
  /\ updatePending = 0
  /\ timerPending = FALSE
  /\ disposed = FALSE

\* lines 64-81: a local session, or one with no browser options: no client
Init ==
  /\ InitGame
  /\ browserClient_ = FALSE
  /\ registerPending = FALSE

\* lines 64-81: a remote session with browser options: the client is made
\* and registerServer is under way
InitBrowser ==
  /\ InitGame
  /\ browserClient_ = TRUE
  /\ registerPending = TRUE

\* ------------------------------------------------------ handleUserConnect
\* user.wireId
WireId(user) == user

\* blk.net.packets.EntityCreate.createData(...), lines 283-289 and 307-313
EntityCreate(entity, objs) ==
  [type |-> "EntityCreate", id |-> entity.id, flags |-> entity.flags,
   wireId |-> IF entity.player # NoPlayer
                THEN WireId(objs[entity.player].user)
                ELSE NoOwnerWireId,
   position |-> entity.position]

ReadyPlayer == [type |-> "ReadyPlayer"]

\* the loop of lines 281-290 started one entity late
CatchUpFromSecond(table, objs, user) ==
  [n \in 1..(Len(table) - 1) |->
     SendTo(EntityCreate(table[n + 1], objs), user)]

\* lines 280-290: one EntityCreate per existing entity, to the new user only
CatchUp(table, objs, user) ==
  [n \in 1..Len(table) |-> SendTo(EntityCreate(table[n], objs), user)]

\* the counter is read but not advanced
NextEntityIdStuck(id) == id

\* line 293: this.nextEntityId_++
NextEntityId(id) == id + 1

\* the entity is placed but not tied to the player
SpawnEntityUnowned(id, player) ==
  [NewEntity(id) EXCEPT !.position = SpawnPosition]

\* the entity is flagged but its owner is not recorded
SpawnEntityNoOwner(id, player) ==
  [NewEntity(id) EXCEPT !.position = SpawnPosition,
                        !.flags = USER_CONTROLLED]

\* lines 293-300: the new entity, placed at the spawn and tied to the player
SpawnEntity(id, player) ==
  [NewEntity(id) EXCEPT !.position = SpawnPosition,
                        !.flags = USER_CONTROLLED,
                        !.player = player]

\* the ready signal sent before the new entity is announced
ConnectPacketsReadyFirst(catchUp, created, ready) ==
  catchUp \o <<ready>> \o <<created>>

\* lines 280-318: the order of the handler's sends
ConnectPackets(catchUp, created, ready) == catchUp \o <<created>> \o <<ready>>

\* lines 250-319.  The session has put the user in session.users before it
\* calls the handler.
handleUserConnect(user) ==
  /\ user \notin sessionUsers
  /\ userData[user] = NoPlayer
  /\ LET session == sessionUsers \cup {user}
         view == user
         entity == SpawnEntity(nextEntityId_, user)
         player == [NewServerPlayer(user) EXCEPT
                      !.view = view,
                      !.entity = entity.id,
                      !.movement = NewServerMovement(entity.id)]
         objs == (user :> player) @@ playerObjs
     IN /\ sessionUsers' = session
        /\ userData' = [userData EXCEPT ![user] = user]
        /\ playerObjs' = objs
        /\ players' = Append(players, user)
        /\ chunkViews' = chunkViews \cup {view}
        /\ entities' = Append(entities, entity)
        /\ nextEntityId_' = NextEntityId(nextEntityId_)
        /\ assigned' = Append(assigned, entity.id)
        /\ sent' = ConnectPackets(
                     CatchUp(entities, objs, user),
                     Broadcast(EntityCreate(entity, objs), session),
                     SendTo(ReadyPlayer, user))
        /\ lastOp' = Op("handleUserConnect", user, <<>>, "undefined")
        /\ UNCHANGED <<blocks, deletesSent>>
        /\ UNCHANGED browserVars

\* --------------------------------------------------- handleUserDisconnect
EntityDelete(id) == [type |-> "EntityDelete", id |-> id]

\* map.removeEntity(entity)
RemoveEntity(table, id) == SelectSeq(table, LAMBDA e : e.id # id)

\* state.removePlayer(user)
RemovePlayer(roster, user) == SelectSeq(roster, LAMBDA p : p # user)

\* the test of line 338 inverted
HasEntityInverted(player) == player.entity = NoEntity

\* line 338: if (entity)
HasEntity(player) == player.entity # NoEntity

\* the test of line 344 inverted
HasViewInverted(player) == player.view = NoView

\* line 344: if (player.view)
HasView(player) == player.view # NoView

\* lines 326-353.  The session has dropped the user from session.users
\* before it calls the handler.  The handler may be called again for a user
\* it has already torn down; MaxDeletes bounds how often.
handleUserDisconnect(user) ==
  /\ sessionUsers' = sessionUsers \ {user}
  /\ lastOp' = Op("handleUserDisconnect", user, <<>>, "undefined")
  /\ UNCHANGED <<userData, blocks, nextEntityId_, assigned>>
  /\ UNCHANGED browserVars
  /\ IF userData[user] = NoPlayer
       THEN /\ sent' = <<>>
            /\ UNCHANGED <<playerObjs, players, entities, chunkViews,
                           deletesSent>>
       ELSE LET player == playerObjs[userData[user]]
            IN /\ IF HasEntity(player)
                    THEN /\ deletesSent[player.entity] < MaxDeletes
                         /\ entities' = RemoveEntity(entities, player.entity)
                         /\ sent' = <<Broadcast(EntityDelete(player.entity),
                                                sessionUsers \ {user})>>
                         /\ deletesSent' =
                              [deletesSent EXCEPT ![player.entity] = @ + 1]
                    ELSE /\ sent' = <<>>
                         /\ UNCHANGED <<entities, deletesSent>>
               /\ IF HasView(player)
                    THEN /\ chunkViews' = chunkViews \ {player.view}
                         /\ playerObjs' =
                              [playerObjs EXCEPT ![userData[user]].view = NoView]
                    ELSE UNCHANGED <<chunkViews, playerObjs>>
               /\ players' = RemovePlayer(players, user)

\* ------------------------------------------------------------------ update
\* ServerMovement.update: the queued commands are applied in queue order;
\* each moves the attached entity one step along x, up to the world's edge
RECURSIVE ApplyCommands(_, _)
ApplyCommands(x, commands) ==
  IF commands = <<>> THEN x
  ELSE ApplyCommands(IF x + 1 > MaxX THEN x ELSE x + 1, Tail(commands))

\* ServerMovement.update: lastSequence becomes the sequence number of the
\* last command applied and the queue is drained
MovementUpdate(movement) ==
  IF movement.attached /\ movement.pendingCommands # <<>>
    THEN [movement EXCEPT
            !.lastSequence =
              movement.pendingCommands[Len(movement.pendingCommands)].sequence,
            !.pendingCommands = <<>>]
    ELSE movement

\* lines 200-205: player.update(frame) for every player of the roster
PlayersUpdated(objs, roster) ==
  [p \in DOMAIN objs |->
     IF p \in Range(roster)
       THEN [objs[p] EXCEPT !.movement = MovementUpdate(objs[p].movement)]
       ELSE objs[p]]

\* lines 200-205, the entity side: the controller of a roster player moves
\* the entity it is attached to; a changed state is one not yet sent
EntityMoved(entity, objs, roster) ==
  LET drivers == {p \in Range(roster) :
                    /\ objs[p].movement.attached
                    /\ objs[p].movement.entity = entity.id}
  IN IF drivers = {} THEN entity
     ELSE LET p == CHOOSE q \in drivers : TRUE
              x == ApplyCommands(entity.position[1],
                                 objs[p].movement.pendingCommands)
          IN IF x = entity.position[1] THEN entity
             ELSE [entity EXCEPT !.position[1] = x,
                                 !.hasSentLatestState = FALSE]

EntitiesMoved(table, objs, roster) ==
  [n \in 1..Len(table) |-> EntityMoved(table[n], objs, roster)]

\* x | 0 for a non-negative x = hi * 2^16 + lo: ToInt32
ToInt32(hi, lo) ==
  LET h == hi % 65536
  IN IF h >= 32768 THEN (h - 65536) * 65536 + lo ELSE h * 65536 + lo

\* line 217: (frame.time * 1000) | 0
StampTime(frameTime) == ToInt32(frameTime.hi, frameTime.lo)

\* entity.state, as an EntityPosition packet carries it
EntityState(entity) ==
  [id |-> entity.id, position |-> entity.position, time |-> entity.time]

\* the flag ignored: every entity is taken as unsent
IsUnsentAlways(entity) == TRUE

\* line 216: if (!entity.hasSentLatestState)
IsUnsent(entity) == ~entity.hasSentLatestState

\* lines 214-221, the table after the scan
Scanned(table, frameTime) ==
  [n \in 1..Len(table) |->
     IF IsUnsent(table[n])
       THEN [table[n] EXCEPT !.time = StampTime(frameTime),
                             !.hasSentLatestState = TRUE]
       ELSE table[n]]

\* lines 213-221, the tick's entityStates
EntityStates(table, frameTime) ==
  LET unsent == SelectSeq(table, IsUnsent)
  IN [n \in 1..Len(unsent) |->
        EntityState([unsent[n] EXCEPT !.time = StampTime(frameTime)])]

\* lines 228-230
NeedsSequenceUpdate(movement) ==
  movement.attached /\ movement.lastSequence # movement.lastSequenceSent

\* the sequence left at the sentinel
SequenceSentinel(movement) == NoSequence

\* lines 224, 231
Sequence(movement) ==
  IF movement.attached THEN movement.lastSequence ELSE NoSequence

\* the next expected sequence number acknowledged instead of the last
AcknowledgedNext(movement) ==
  IF movement.attached
    THEN [movement EXCEPT !.lastSequenceSent = movement.lastSequence + 1]
    ELSE movement

\* line 232
Acknowledged(movement) ==
  IF movement.attached
    THEN [movement EXCEPT !.lastSequenceSent = movement.lastSequence]
    ELSE movement

\* a packet every tick, needed or not
ShouldSendAlways(entityStates, needsSequenceUpdate) == TRUE

\* line 238
ShouldSend(entityStates, needsSequenceUpdate) ==
  Len(entityStates) > 0 \/ needsSequenceUpdate

\* blk.net.packets.EntityPosition.createData(sequence, entityStates)
EntityPosition(sequence, entityStates) ==
  [type |-> "EntityPosition", sequence |-> sequence, states |-> entityStates]

\* lines 222-242: the packets of the broadcast loop, in roster order
PositionPackets(objs, roster, entityStates) ==
  LET needing == SelectSeq(roster, LAMBDA p :
                   ShouldSend(entityStates,
                              NeedsSequenceUpdate(objs[p].movement)))
  IN [n \in 1..Len(needing) |->
        SendTo(EntityPosition(Sequence(objs[needing[n]].movement),
                              entityStates),
               objs[needing[n]].user)]

\* lines 193-243
update(frameTime) ==
  LET objs == PlayersUpdated(playerObjs, players)
      table == EntitiesMoved(entities, playerObjs, players)
      entityStates == EntityStates(table, frameTime)
  IN /\ entities' = Scanned(table, frameTime)
     /\ sent' = PositionPackets(objs, players, entityStates)
     /\ playerObjs' =
          [p \in DOMAIN objs |->
             IF p \in Range(players)
               THEN [objs[p] EXCEPT !.movement = Acknowledged(objs[p].movement)]
               ELSE objs[p]]
     /\ lastOp' = Op("update", 0, <<frameTime>>, "undefined")
     /\ UNCHANGED <<sessionUsers, userData, players, chunkViews, blocks,
                    nextEntityId_, assigned, deletesSent>>
     /\ UNCHANGED browserVars

\* ---------------------------------------------------------------- setBlock
\* the view left unchecked
HasPlayerOnly(data, objs, user) == data[user] # NoPlayer

\* line 368: if (!player || !player.view)
HasPlayerAndView(data, objs, user) ==
  data[user] # NoPlayer /\ objs[data[user]].view # NoView

\* the type read one bit too high
BlockTypeShift9(blockData) == blockData \div 512

\* line 378: blockData >> 8
BlockType(blockData) == blockData \div 256

\* line 378: blockData && !map.blockSet.has(blockData >> 8)
UnknownBlockType(blockData) ==
  blockData # 0 /\ BlockType(blockData) \notin BlockSet

\* ChunkView.setBlock: whether the stored value changed
ViewSetBlockChanged(world, cell, blockData) == world[cell] # blockData

\* ChunkView.setBlock: the world after the write
ViewSetBlock(world, cell, blockData) == [world EXCEPT ![cell] = blockData]

SetBlockPacket(cell, blockData) ==
  [type |-> "SetBlock", cell |-> cell, blockData |-> blockData]

\* the broadcast made whether or not the cell changed
SetBlockBroadcastAlways(changed, cell, blockData, session) ==
  <<Broadcast(SetBlockPacket(cell, blockData), session)>>

\* lines 386-390
SetBlockBroadcast(changed, cell, blockData, session) ==
  IF changed THEN <<Broadcast(SetBlockPacket(cell, blockData), session)>>
  ELSE <<>>

\* lines 365-393
setBlock(user, cell, blockData) ==
  /\ UNCHANGED <<sessionUsers, userData, playerObjs, players, entities,
                 chunkViews, nextEntityId_, assigned, deletesSent>>
  /\ UNCHANGED browserVars
  /\ IF ~HasPlayerAndView(userData, playerObjs, user)
       THEN /\ lastOp' = Op("setBlock", user, <<cell, blockData>>, "false")
            /\ sent' = <<>>
            /\ UNCHANGED blocks
       ELSE IF UnknownBlockType(blockData)
         THEN /\ lastOp' = Op("setBlock", user, <<cell, blockData>>, "false")
              /\ sent' = <<>>
              /\ UNCHANGED blocks
         ELSE /\ blocks' = ViewSetBlock(blocks, cell, blockData)
              /\ sent' = SetBlockBroadcast(
                           ViewSetBlockChanged(blocks, cell, blockData),
                           cell, blockData, sessionUsers)
              /\ lastOp' = Op("setBlock", user, <<cell, blockData>>, "true")

\* -------------------------------------------------------------- movePlayer
Command == [sequence : 0..MaxSequence]

\* the command lists a client sends: sequence numbers do not decrease
IsOrdered(commands) ==
  \A i \in 1..(Len(commands) - 1) :
    commands[i].sequence <= commands[i + 1].sequence

CommandLists ==
  {c \in UNION {[1..n -> Command] : n \in 1..MaxCommands} : IsOrdered(c)}

\* the highest sequence number the controller has been given so far
LastQueued(movement) ==
  IF movement.pendingCommands # <<>>
    THEN movement.pendingCommands[Len(movement.pendingCommands)].sequence
    ELSE movement.lastSequence

\* ServerMovement.queueCommands(commands)
QueueCommands(movement, commands) ==
  [movement EXCEPT !.pendingCommands = @ \o commands]

\* lines 402-410.  Reading player.movement of a user with no player throws.
movePlayer(user, commands) ==
  /\ UNCHANGED <<sessionUsers, userData, players, entities, chunkViews,
                 blocks, nextEntityId_, assigned, deletesSent>>
  /\ UNCHANGED browserVars
  /\ sent' = <<>>
  /\ IF userData[user] = NoPlayer
       THEN /\ lastOp' = Op("movePlayer", user, <<>>, "TypeError")
            /\ UNCHANGED playerObjs
       ELSE LET movement == playerObjs[userData[user]].movement
            IN /\ movement.attached =>
                    /\ commands[1].sequence >= LastQueued(movement)
                    /\ Len(movement.pendingCommands) + Len(commands)
                         <= MaxQueue
               /\ playerObjs' =
                    [playerObjs EXCEPT ![userData[user]].movement =
                       IF movement.attached
                         THEN QueueCommands(movement, commands)
                         ELSE movement]
               /\ lastOp' = Op("movePlayer", user, <<>>, "true")

\* ---------------------------------------------------- server browser client
gameVars == <<sessionUsers, userData, playerObjs, players, entities,
              chunkViews, blocks, nextEntityId_, assigned, deletesSent>>

\* the loop of lines 175-178 started one user late
UserInfosFromSecond(session) ==
  IF session = {} THEN {}
  ELSE session \ {CHOOSE u \in session : \A v \in session : u <= v}

\* lines 173-178: user.info of every user of session.users
UserInfos(session) == session

\* lines 168-187, up to the updateServer call: the body of updateBrowser_
UpdateBrowserBody ==
  /\ sent' = <<>>
  /\ UNCHANGED gameVars
  /\ IF ~browserClient_
       THEN /\ lastOp' = Op("updateBrowser_", 0, <<>>, "undefined")
            /\ UNCHANGED updatePending
       ELSE /\ lastOp' = Op("updateBrowser_", 0,
                            <<UserInfos(sessionUsers)>>, "updateServer")
            /\ updatePending' = updatePending + 1

\* lines 72-80: registerServer's deferred fires; on success the callback
\* calls updateBrowser_, on failure it only logs
registerServerCallback(ok) ==
  /\ registerPending
  /\ registerPending' = FALSE
  /\ UNCHANGED <<browserClient_, browserUpdateId_, timerPending, disposed>>
  /\ IF ok
       THEN UpdateBrowserBody
       ELSE /\ lastOp' = Op("registerServer", 0, <<>>, "failed")
            /\ sent' = <<>>
            /\ UNCHANGED gameVars
            /\ UNCHANGED updatePending

\* lines 168-187: the timeout set at line 183 fires and runs updateBrowser_
updateBrowser_ ==
  /\ timerPending
  /\ timerPending' = FALSE
  /\ UNCHANGED <<browserClient_, browserUpdateId_, registerPending, disposed>>
  /\ UpdateBrowserBody

\* lines 180-186: updateServer's deferred fires, with a result or an error
\* (addBoth), and the callback sets the next timeout
updateServerCallback ==
  /\ updatePending > 0
  /\ updatePending' = updatePending - 1
  /\ browserUpdateId_' = TimerId
  /\ timerPending' = TRUE
  /\ lastOp' = Op("updateServerCallback", 0, <<>>, "undefined")
  /\ sent' = <<>>
  /\ UNCHANGED gameVars
  /\ UNCHANGED <<browserClient_, registerPending, disposed>>

\* lines 151-161: the timeout named by browserUpdateId_ is cleared, the
\* server is unregistered, and the registered disposables are disposed;
\* this.browserClient_ keeps referring to the disposed client
disposeInternal ==
  /\ ~disposed
  /\ disposed' = TRUE
  /\ IF browserUpdateId_ # NoTimer
       THEN /\ timerPending' = FALSE
            /\ browserUpdateId_' = NoTimer
       ELSE UNCHANGED <<timerPending, browserUpdateId_>>
  /\ lastOp' = Op("disposeInternal", 0, <<>>,
                  IF browserClient_ THEN "unregisterServer" ELSE "undefined")
  /\ sent' = <<>>
  /\ UNCHANGED gameVars
  /\ UNCHANGED <<browserClient_, registerPending, updatePending>>

\* ---------------------------------------------------------- specification
\* connects, disconnects, ticks and movement commands
Next ==
  \/ \E user \in Users : handleUserConnect(user)
  \/ \E user \in Users : handleUserDisconnect(user)
  \/ \E frameTime \in FrameTimes : update(frameTime)
  \/ \E user \in Users, commands \in CommandLists : movePlayer(user, commands)

Spec == Init /\ [][Next]_vars

\* connects, disconnects and ticks
NextLife ==
  \/ \E user \in Users : handleUserConnect(user)
  \/ \E user \in Users : handleUserDisconnect(user)
  \/ \E frameTime \in FrameTimes : update(frameTime)

SpecLife == Init /\ [][NextLife]_vars

\* connects, disconnects and block edits
NextBlock ==
  \/ \E user \in Users : handleUserConnect(user)
  \/ \E user \in Users : handleUserDisconnect(user)
  \/ \E user \in Users, cell \in Cells, blockData \in BlockDatas :
       setBlock(user, cell, blockData)

SpecBlock == Init /\ [][NextBlock]_vars

\* every handler of the game, with block edits of one cell
NextAll ==
  \/ \E user \in Users : handleUserConnect(user)
  \/ \E user \in Users : handleUserDisconnect(user)
  \/ \E frameTime \in FrameTimes : update(frameTime)
  \/ \E user \in Users, cell \in {<<1, 2, 3>>}, blockData \in BlockDatas :
       setBlock(user, cell, blockData)
  \/ \E user \in Users, commands \in CommandLists : movePlayer(user, commands)

SpecAll == Init /\ [][NextAll]_vars

\* connects, disconnects and ticks of a server listed with the browser,
\* with the browser client's callbacks, its timer and the game's disposal
NextBrowser ==
  \/ \E user \in Users : handleUserConnect(user)
  \/ \E user \in Users : handleUserDisconnect(user)
  \/ \E frameTime \in FrameTimes : update(frameTime)
  \/ \E ok \in BOOLEAN : registerServerCallback(ok)
  \/ updateBrowser_
  \/ updateServerCallback
  \/ disposeInternal

SpecBrowser == InitBrowser /\ [][NextBrowser]_vars

\* -------------------------------------------------------------- properties
\* the packets of a log that have the given type and reach the given user
PacketsFor(log, user, type) ==
  SelectSeq(log, LAMBDA p : p.type = type /\ user \in p.to)

\* an update step: its delta set is non-empty when some entity entered the
\* tick unsent or changed its state in it
DeltaNonEmpty ==
  \E n \in 1..Len(entities) :
    \/ ~entities[n].hasSentLatestState
    \/ entities'[n].position # entities[n].position

\* an update step: at the broadcast loop the player's lastSequence (as the
\* tick leaves it) differs from its lastSequenceSent (as the tick found it)
Unacknowledged(p) ==
  /\ playerObjs[p].movement.attached
  /\ playerObjs'[p].movement.lastSequence
       # playerObjs[p].movement.lastSequenceSent

\* C1: in every tick each player of the roster is sent 0 or 1 EntityPosition
\* packets: exactly 1 if the tick's delta set is non-empty or the player's
\* lastSequence differs from its lastSequenceSent, and 0 if neither holds.
C1_PositionPacketWhenNeeded ==
  [][lastOp'.op = "update" =>
       \A p \in Range(players) :
         Len(PacketsFor(sent', playerObjs[p].user, "EntityPosition"))
           = IF DeltaNonEmpty \/ Unacknowledged(p) THEN 1 ELSE 0]_vars

\* a tick with two players in which one got a packet and the other none
C1_Witness ==
  /\ lastOp.op = "update"
  /\ Len(players) = 2
  /\ Len(sent) = 1
  /\ sent[1].states = <<>>

\* C2: the entity ids handed out by handleUserConnect are strictly
\* increasing in assignment order, so none is handed out twice, also after
\* the entity that held an id has been removed.
C2_EntityIdsStrictlyIncreasing ==
  \A i \in 1..Len(assigned) : \A j \in 1..Len(assigned) :
    i < j => assigned[i] < assigned[j]

\* a connect that followed the removal of an earlier entity
C2_Witness ==
  /\ lastOp.op = "handleUserConnect"
  /\ Len(assigned) = 2
  /\ Len(entities) = 1
  /\ deletesSent[assigned[1]] = 1

\* C3: after handleUserDisconnect for a connected user the entity its player
\* owned is absent from the entity table, the handler broadcast one
\* EntityDelete for it, and that is the only one of the run so far.
C3_DisconnectDeletesEntityOnce ==
  [][(lastOp'.op = "handleUserDisconnect" /\ lastOp'.user \in sessionUsers) =>
       LET id == playerObjs[userData[lastOp'.user]].entity
       IN /\ id \in {entities[n].id : n \in 1..Len(entities)}
          /\ id \notin {entities'[n].id : n \in 1..Len(entities')}
          /\ Len(SelectSeq(sent', LAMBDA p :
                   p.type = "EntityDelete" /\ p.id = id /\ p.bcast)) = 1
          /\ deletesSent'[id] = 1]_vars

\* a connected user has just been disconnected while another stays
C3_Witness ==
  /\ lastOp.op = "handleUserDisconnect"
  /\ userData[lastOp.user] # NoPlayer
  /\ deletesSent[playerObjs[lastOp.user].entity] = 1
  /\ Len(sent) = 1
  /\ Len(entities) = 1

\* C5: handleUserConnect grows the roster by exactly one player; exactly one
\* live entity is owned by the new player, it has USER_CONTROLLED set, is at
\* the spawn position, and entity and player refer to each other.
C5_ConnectCreatesOwnedEntity ==
  [][lastOp'.op = "handleUserConnect" =>
       LET player == userData'[lastOp'.user]
           owned == {n \in 1..Len(entities') : entities'[n].player = player}
       IN /\ Len(players') = Len(players) + 1
          /\ player \notin Range(players)
          /\ player \in Range(players')
          /\ Cardinality(owned) = 1
          /\ \A n \in owned :
               /\ entities'[n].flags = USER_CONTROLLED
               /\ entities'[n].position = SpawnPosition
               /\ playerObjs'[player].entity = entities'[n].id]_vars

\* a second player has just connected
C5_Witness ==
  /\ lastOp.op = "handleUserConnect"
  /\ Len(players) = 2
  /\ Len(entities) = 2

\* C4: a second handleUserDisconnect for the same user, with no connect in
\* between, sends no packet and leaves the entity table, the registered
\* chunk views and the roster unchanged.
C4_SecondDisconnectIsNoOp ==
  [][(/\ lastOp'.op = "handleUserDisconnect"
      /\ lastOp'.user \notin sessionUsers
      /\ userData[lastOp'.user] # NoPlayer) =>
       /\ sent' = <<>>
       /\ UNCHANGED <<entities, chunkViews, players>>]_vars

\* C6: setBlock with a non-zero blockData whose type (blockData >> 8) is not
\* in the block set returns false, leaves every cell and the rest of the
\* state unchanged and sends no packet.
C6_UnknownBlockTypeRejected ==
  [][(/\ lastOp'.op = "setBlock"
      /\ lastOp'.args[2] # 0
      /\ (lastOp'.args[2] \div 256) \notin BlockSet) =>
       /\ lastOp'.ret = "false"
       /\ sent' = <<>>
       /\ UNCHANGED <<blocks, entities, players, chunkViews, playerObjs,
                      userData, nextEntityId_>>]_vars

\* a user with a player and a view was refused an unregistered type
C6_Witness ==
  /\ lastOp.op = "setBlock"
  /\ lastOp.args = <<(<<1, 2, 3>>), 768>>
  /\ lastOp.ret = "false"
  /\ userData[lastOp.user] # NoPlayer
  /\ playerObjs[userData[lastOp.user]].view # NoView
  /\ blocks[<<1, 2, 3>>] = 257

\* C7: for a user with a player and a view and a valid block type, setBlock
\* returns true, stores the value, and broadcasts one SetBlock packet exactly
\* when the stored value of the cell changed; setting a cell to the value it
\* holds leaves the world unchanged and sends nothing.
C7_BroadcastOnlyOnChange ==
  [][(/\ lastOp'.op = "setBlock"
      /\ userData[lastOp'.user] # NoPlayer
      /\ playerObjs[userData[lastOp'.user]].view # NoView
      /\ (lastOp'.args[2] = 0 \/ (lastOp'.args[2] \div 256) \in BlockSet)) =>
       LET cell == lastOp'.args[1]
           blockData == lastOp'.args[2]
       IN /\ lastOp'.ret = "true"
          /\ blocks'[cell] = blockData
          /\ \A c \in Cells \ {cell} : blocks'[c] = blocks[c]
          /\ IF blocks[cell] # blockData
               THEN /\ Len(sent') = 1
                    /\ sent'[1].type = "SetBlock"
                    /\ sent'[1].bcast
                    /\ sent'[1].cell = cell
                    /\ sent'[1].blockData = blockData
               ELSE /\ sent' = <<>>
                    /\ blocks' = blocks]_vars

\* an accepted edit that set a cell to the non-empty value it already held
C7_Witness ==
  /\ lastOp.op = "setBlock"
  /\ lastOp.ret = "true"
  /\ lastOp.args[2] # 0
  /\ blocks[lastOp.args[1]] = lastOp.args[2]
  /\ sent = <<>>

\* C8: handleUserConnect sends, in this order: one EntityCreate to the
\* connecting user only for each entity live before the connect, one
\* EntityCreate for the new entity broadcast to all users of the session (the
\* connecting user among them), and last a ReadyPlayer to the connecting
\* user only.
C8_ConnectPacketOrder ==
  [][lastOp'.op = "handleUserConnect" =>
       LET user == lastOp'.user
           k == Len(entities)
       IN /\ Len(sent') = k + 2
          /\ Len(entities') = k + 1
          /\ \A n \in 1..k :
               /\ sent'[n].type = "EntityCreate"
               /\ sent'[n].id = entities[n].id
               /\ ~sent'[n].bcast
               /\ sent'[n].to = {user}
          /\ sent'[k + 1].type = "EntityCreate"
          /\ sent'[k + 1].id = entities'[k + 1].id
          /\ sent'[k + 1].id \notin {entities[n].id : n \in 1..k}
          /\ sent'[k + 1].bcast
          /\ sent'[k + 1].to = sessionUsers'
          /\ user \in sessionUsers'
          /\ sent'[k + 2].type = "ReadyPlayer"
          /\ ~sent'[k + 2].bcast
          /\ sent'[k + 2].to = {user}]_vars

\* a second user connected: one catch-up, the broadcast to both, the ready
C8_Witness ==
  /\ lastOp.op = "handleUserConnect"
  /\ Len(sent) = 3
  /\ sent[1].id = 0
  /\ sent[2].id = 1
  /\ Cardinality(sent[2].to) = 2
  /\ sent[3].type = "ReadyPlayer"

C10_SentNeverAheadOfSequence ==
  /\ [](\A p \in DOMAIN playerObjs :
          playerObjs[p].movement.attached =>
            playerObjs[p].movement.lastSequenceSent
              <= playerObjs[p].movement.lastSequence)
  /\ [][lastOp'.op = "update" =>
          \A p \in DOMAIN playerObjs :
            playerObjs[p].movement.attached =>
              playerObjs[p].movement.lastSequenceSent
                <= playerObjs'[p].movement.lastSequence]_vars

\* a player whose sequence numbers 0 and then 1 were processed and sent
C10_Witness ==
  /\ lastOp.op = "update"
  /\ \E p \in Range(players) :
       /\ playerObjs[p].movement.lastSequence = 1
       /\ playerObjs[p].movement.lastSequenceSent = 1
       /\ \E q \in DOMAIN playerObjs :
            /\ q # p
            /\ playerObjs[q].movement.lastSequence = 0

\* C11: in every state between operations ownership is a bijection: every
\* USER_CONTROLLED entity of the table is the entity of exactly one player,
\* the one it names, and that player is in the roster; every roster player
\* owns exactly one entity of the table, the one it names.
C11_OwnershipBijection ==
  /\ \A n \in 1..Len(entities) :
       entities[n].flags = USER_CONTROLLED =>
         LET owners == {p \in DOMAIN playerObjs :
                          playerObjs[p].entity = entities[n].id}
         IN /\ Cardinality(owners) = 1
            /\ entities[n].player \in owners
            /\ entities[n].player \in Range(players)
  /\ \A i \in 1..Len(players) :
       LET owned == {n \in 1..Len(entities) :
                       entities[n].player = players[i]}
       IN /\ Cardinality(owned) = 1
          /\ \A n \in owned :
               /\ playerObjs[players[i]].entity = entities[n].id
               /\ entities[n].flags = USER_CONTROLLED
  /\ \A i \in 1..Len(players) : \A j \in 1..Len(players) :
       players[i] = players[j] => i = j

\* one player left and one stays, a block was edited, and a movement
\* command has just been queued
C11_Witness ==
  /\ lastOp.op = "movePlayer"
  /\ Len(players) = 1
  /\ Len(entities) = 1
  /\ nextEntityId_ = 2
  /\ blocks[<<1, 2, 3>>] # 0

\* C12 as stated: the ack of an EntityPosition packet is the player's
\* lastSequence when a sequence number is still to be acknowledged, and the
\* sentinel -1 when none is.
C12_AckSentinelWhenNonePending ==
  [][lastOp'.op = "update" =>
       \A p \in Range(players) :
         LET toP == PacketsFor(sent', playerObjs[p].user, "EntityPosition")
         IN \A i \in 1..Len(toP) :
              toP[i].sequence = IF Unacknowledged(p)
                                  THEN playerObjs'[p].movement.lastSequence
                                  ELSE NoSequence]_vars

\* C13: every EntityPosition packet of a tick carries the same list: one
\* state for each entity of the table that was unsent at the scan (it came
\* into the tick unsent, or its state changed in the tick), as the table
\* holds it after the tick, and no other; after the tick every entity of
\* the table has hasSentLatestState set.
C13_SameDeltaSetForAll ==
  [][lastOp'.op = "update" =>
       LET unsent == {n \in 1..Len(entities) :
                        \/ ~entities[n].hasSentLatestState
                        \/ entities'[n].position # entities[n].position}
       IN /\ Len(entities') = Len(entities)
          /\ \A n \in 1..Len(entities') : entities'[n].hasSentLatestState
          /\ \A i \in 1..Len(sent') :
               /\ sent'[i].type = "EntityPosition"
               /\ sent'[i].states = sent'[1].states
               /\ Len(sent'[i].states) = Cardinality(unsent)
               /\ \A n \in unsent : \E k \in 1..Len(sent'[i].states) :
                    /\ sent'[i].states[k].id = entities'[n].id
                    /\ sent'[i].states[k].position = entities'[n].position
                    /\ sent'[i].states[k].time = entities'[n].time]_vars

\* a tick with two entities, one of them unsent, and a packet to each of
\* the two players
C13_Witness ==
  /\ lastOp.op = "update"
  /\ Len(entities) = 2
  /\ Len(sent) = 2
  /\ Len(sent[1].states) = 1
  /\ sent[2].states = sent[1].states

\* C14: setBlock for a user with no player, or whose player has no chunk
\* view (a disconnected user among them), returns false, sends no packet
\* and leaves the world, the entity table and the roster unchanged.
C14_SetBlockWithoutPlayerOrView ==
  [][(/\ lastOp'.op = "setBlock"
      /\ \/ userData[lastOp'.user] = NoPlayer
         \/ playerObjs[userData[lastOp'.user]].view = NoView) =>
       /\ lastOp'.ret = "false"
       /\ sent' = <<>>
       /\ UNCHANGED <<blocks, entities, players, chunkViews>>]_vars

\* a disconnected user asked for a block of a registered type
C14_Witness ==
  /\ lastOp.op = "setBlock"
  /\ lastOp.ret = "false"
  /\ lastOp.args[2] = 256
  /\ lastOp.user \notin sessionUsers
  /\ userData[lastOp.user] # NoPlayer
  /\ playerObjs[userData[lastOp.user]].view = NoView

\* C15 as stated: movePlayer for a user with no movement controller, or
\* with no player at all, raises no error, returns true, sends nothing and
\* changes no state; with a controller attached it returns true and the
\* commands are appended to the controller's queue in the given order.
C15_MoveWithoutControllerIsNoOp ==
  [][lastOp'.op = "movePlayer" =>
       LET user == lastOp'.user
       IN IF \/ userData[user] = NoPlayer
             \/ ~playerObjs[userData[user]].movement.attached
            THEN /\ lastOp'.ret = "true"
                 /\ sent' = <<>>
                 /\ UNCHANGED <<playerObjs, players, entities, blocks>>
            ELSE /\ lastOp'.ret = "true"
                 /\ \E commands \in CommandLists :
                      playerObjs'[userData[user]].movement.pendingCommands =
                        playerObjs[userData[user]].movement.pendingCommands
                          \o commands]_vars

\* C16: in every state between operations the chunk views registered with
\* the map are exactly the views of the roster players, one view each and
\* no view shared, and a player that is not in the roster holds no view.
C16_ViewsMatchRoster ==
  /\ chunkViews = {playerObjs[players[i]].view : i \in 1..Len(players)}
  /\ NoView \notin chunkViews
  /\ Cardinality(chunkViews) = Len(players)
  /\ \A p \in DOMAIN playerObjs :
       p \notin Range(players) => playerObjs[p].view = NoView

\* one of two connected users has just disconnected
C16_Witness ==
  /\ lastOp.op = "handleUserDisconnect"
  /\ userData[lastOp.user] # NoPlayer
  /\ playerObjs[userData[lastOp.user]].view = NoView
  /\ Len(players) = 1
  /\ Cardinality(chunkViews) = 1

\* C17 as stated: every entity state of a tick's EntityPosition packets
\* carries the tick's frame time in whole milliseconds, the same in every
\* state of the tick, for every frame time the tick is given.
C17_StampIsFrameMilliseconds ==
  [][lastOp'.op = "update" =>
       \A i \in 1..Len(sent') : \A k \in 1..Len(sent'[i].states) :
         LET stamp == sent'[i].states[k].time
             frameTime == lastOp'.args[1]
         IN /\ stamp >= 0
            /\ stamp \div 65536 = frameTime.hi
            /\ stamp % 65536 = frameTime.lo]_vars

\* C18: updateBrowser_, run from the registerServer callback or from its
\* timer between any two operations, sends no packet and leaves the
\* session, the roster, the entity table, the world, the views and every
\* player and movement controller unchanged; the request it makes carries
\* the user infos of exactly the session's users at that moment.
C18_HeartbeatOnlyReads ==
  [][lastOp'.op = "updateBrowser_" =>
       /\ UNCHANGED <<sessionUsers, userData, playerObjs, players, entities,
                      chunkViews, blocks, nextEntityId_>>
       /\ sent' = <<>>
       /\ lastOp'.ret \in {"updateServer", "undefined"}
       /\ lastOp'.ret = "updateServer" =>
            lastOp'.args = <<sessionUsers>>]_vars

\* the heartbeat has run with two users connected
C18_Witness ==
  /\ lastOp.op = "updateBrowser_"
  /\ lastOp.ret = "updateServer"
  /\ Cardinality(sessionUsers) = 2
  /\ lastOp.args[1] = sessionUsers
  /\ Len(players) = 2

\* C19: handleUserConnect sends the connecting user exactly one
\* EntityCreate for each entity of the table as the handler leaves it, the
\* new entity included, and none for any other entity; the catch-up
\* packets, addressed to the user alone, cover the entities that were in
\* the table before, and the broadcast covers the new entity.
C19_ConnectAnnouncesEachEntityOnce ==
  [][lastOp'.op = "handleUserConnect" =>
       LET user == lastOp'.user
           creates == PacketsFor(sent', user, "EntityCreate")
       IN /\ Len(creates) = Len(entities')
          /\ \A n \in 1..Len(entities') :
               Cardinality({i \in 1..Len(creates) :
                              creates[i].id = entities'[n].id}) = 1
          /\ \A i \in 1..Len(creates) :
               IF creates[i].to = {user} /\ sessionUsers' # {user}
                 THEN \E n \in 1..Len(entities) :
                        entities[n].id = creates[i].id
                 ELSE creates[i].id = entities'[Len(entities')].id]_vars

\* a second user has connected and was told of both entities
C19_Witness ==
  /\ lastOp.op = "handleUserConnect"
  /\ Len(entities) = 2
  /\ Len(PacketsFor(sent, lastOp.user, "EntityCreate")) = 2

\* C20 as stated: once disposeInternal has run no updateBrowser_ timer is
\* pending and no further updateServer call is made, whatever was in flight
\* when it ran.
C20_HeartbeatStoppedAfterDispose ==
  [][/\ disposed' => ~timerPending'
     /\ disposed => updatePending' <= updatePending]_vars

====
